---- MODULE Spec2Model ----
(***************************************************************************)
(* Model of the go-logger diagnostics Agent (package logger): the event    *)
(* flag gate, the listener registry and its typed adapters, the emission   *)
(* methods, and Close/Drain over the agent's work queue.                   *)
(*                                                                         *)
(* One producer thread issues emission calls, one control thread issues    *)
(* configuration calls and the shutdown calls, and the queue's workers     *)
(* execute tasks.  Every access to shared state is one step.               *)
(***************************************************************************)
EXTENDS Integers, Sequences, FiniteSets, TLC

\* ------------------------------------------------------------------ bounds
MaxEmit      == 1   \* emission calls issued by the producer
MaxAdmin     == 1   \* configuration calls issued by the control thread
MaxWorkers   == 1   \* workers the queue is started with (1..MaxWorkers)
MaxWorkItems == 1   \* capacity of the queue's buffer
MaxListeners == 1   \* listeners registered per event flag
MaxStateLen  == 4   \* longest state tuple handed to a typed adapter

\* Bounds of the dispatch runs: emission calls, registry calls, listeners
\* registered per flag, workers.
MaxDispatchEmit    == 1
MaxRegistryCalls   == 2
MaxRegistered      == 2
MaxDispatchWorkers == 2

\* ------------------------------------------------------------- event flags
EventInfo       == "info"
EventDebug      == "debug"
EventWarning    == "warning"
EventError      == "error"
EventFatalError == "fatal"
EventWebRequest == "webRequest"

Kinds == {EventInfo, EventDebug, EventWarning, EventError, EventFatalError,
          EventWebRequest}

\* NewEventFlagSetAll / NewEventFlagSetNone
EventAll  == Kinds
EventNone == {}

\* EventFlagSet: the set of enabled flags.
FlagSetIsEnabled(set, flag) == flag \in set
FlagSetEnable(set, flag)    == set \cup {flag}
FlagSetDisable(set, flag)   == set \ {flag}

DefaultAgentVerbosity == {EventFatalError, EventError, EventWebRequest, EventInfo}

\* ------------------------------------------------------ untyped state values
\* An interface{} value: its dynamic type, its value and, for a slice, its
\* elements.
Val(t, v) == [t |-> t, v |-> v, s |-> <<>>]

\* A []interface{} held in one interface{} value.
SliceVal(elems) == [t |-> "slice", v |-> "", s |-> elems]

\* A time.Time, an EventFlag, an AnsiColorCode, a string.
TimeVal(ts)  == Val("time", ToString(ts))
FlagVal(k)   == Val("flag", k)
ColorVal(c)  == Val("color", c)
StringVal(x) == Val("string", x)

NilVal == Val("nil", "nil")
Req    == Val("request", "req")

\* fmt.Errorf(format): a non-nil error whose message is the format.
MkErr(msg) == Val("error", msg)

\* error.Error() / fmt.Sprintf("%+v", err)
ErrMsg(err) == err.v

TypeNames == {"nil", "error", "request", "int", "duration", "bytes"}

\* one value of every dynamic type
SampleVal(t) == IF t = "nil" THEN NilVal
                ELSE IF t = "error" THEN MkErr("boom")
                ELSE IF t = "request" THEN Req
                ELSE Val(t, "v")

RECURSIVE TuplesUpTo(_)
TuplesUpTo(n) ==
    IF n = 0 THEN {<<>>}
    ELSE LET shorter == TuplesUpTo(n - 1)
         IN  shorter \cup { Append(s, SampleVal(t)) :
                             s \in {u \in shorter : Len(u) = n - 1}, t \in TypeNames }

\* --------------------------------------------------------- state decoders
\* stateAsTimeSource, stateAsEventFlag, ..., stateAsBytes: a checked type
\* assertion returning (value, error).
Decode(t, v) == [ok |-> v.t = t, val |-> v]

stateAsTimeSource(v)    == Decode("time", v)
stateAsEventFlag(v)     == Decode("flag", v)
stateAsAnsiColorCode(v) == Decode("color", v)
stateAsString(v)        == Decode("string", v)

stateAsRequest(v)  == Decode("request", v)
stateAsInteger(v)  == Decode("int", v)
stateAsDuration(v) == Decode("duration", v)
stateAsBytes(v)    == Decode("bytes", v)

\* --------------------------------------------------------- typed adapters
\* The outcome of invoking the generic listener an adapter returns.
Called(args) == [outcome |-> "called", args |-> args]
Dropped      == [outcome |-> "dropped", args |-> <<>>]
Panicked     == [outcome |-> "panic", args |-> <<>>]

NewErrorListener(state) ==
    IF Len(state) > 0 /\ state[1].t = "error"
    THEN Called(<<state[1]>>)
    ELSE Dropped

NewRequestStartListener(state) ==
    IF Len(state) > 0 /\ state[1].t = "request"
    THEN Called(<<state[1]>>)
    ELSE Dropped

\* The length guard admits three elements; the fourth is then indexed.
NewRequestListener(state) ==
    IF Len(state) < 3 THEN Dropped
    ELSE IF ~stateAsRequest(state[1]).ok THEN Dropped
    ELSE IF ~stateAsInteger(state[2]).ok THEN Dropped
    ELSE IF ~stateAsInteger(state[3]).ok THEN Dropped
    ELSE IF Len(state) < 4 THEN Panicked          \* state[3]: index out of range
    ELSE IF ~stateAsDuration(state[4]).ok THEN Dropped
    ELSE Called(<<state[1], state[2], state[3], state[4]>>)

NewRequestBodyListener(state) ==
    IF Len(state) < 1 THEN Dropped
    ELSE IF ~stateAsBytes(state[1]).ok THEN Dropped
    ELSE Called(<<state[1]>>)

NewResponseListener(state) ==
    IF Len(state) < 1 THEN Dropped
    ELSE IF ~stateAsBytes(state[1]).ok THEN Dropped
    ELSE Called(<<state[1]>>)

Adapters == {"ErrorListener", "RequestStartListener", "RequestListener",
             "RequestBodyListener", "ResponseListener"}

\* EventListeners written by hand, which take any state.
PlainListeners == {"listenerA", "listenerB"}

\* listener(writer, ts, eventFlag, state...)
InvokeListener(a, state) ==
    CASE a = "ErrorListener"        -> NewErrorListener(state)
      [] a = "RequestStartListener" -> NewRequestStartListener(state)
      [] a = "RequestListener"      -> NewRequestListener(state)
      [] a = "RequestBodyListener"  -> NewRequestBodyListener(state)
      [] a = "ResponseListener"     -> NewResponseListener(state)
      [] a \in PlainListeners       -> Called(state)

\* The parameter types of the callback each adapter wraps.
CallbackTypes(a) ==
    CASE a = "ErrorListener"        -> <<"error">>
      [] a = "RequestStartListener" -> <<"request">>
      [] a = "RequestListener"      -> <<"request", "int", "int", "duration">>
      [] a = "RequestBodyListener"  -> <<"bytes">>
      [] a = "ResponseListener"     -> <<"bytes">>

\* ------------------------------------------------------------------ state
VARIABLES
    events,          \* da.events: the enabled flags
    eventListeners,  \* da.eventListeners: flag -> listeners in registration order
    pending,         \* the queue's buffer of tasks not yet started
    closed,          \* the queue has been closed
    worker,          \* each worker: what it is doing
    writerLog,       \* lines the Writer has received, in order
    calls,           \* wrapped callbacks invoked, in order
    done,            \* timestamps of the tasks that finished, in order
    clock,           \* TimeNow(): the next logical timestamp
    prod,            \* the producer thread: its current (or last) emission call
    nEmit,           \* emission calls issued so far
    ctl,             \* the control thread: configuration and shutdown calls
    nAdmin,          \* configuration calls issued so far
    emitted,         \* history: what the calls did, recorded as they returned
    drainSnap,       \* history: tasks enqueued and unfinished when Drain was called
    closeSnap,       \* history: tasks enqueued and unfinished when Close was called
    panic,           \* the panic that ended the process, if any
    default,         \* _default: the process-wide agent, nil until SetDefault
    adapter,         \* a typed adapter invoked on its own
    tuple,           \* the state tuple handed to it
    result           \* the outcome of that invocation

vars == <<events, eventListeners, pending, closed, worker, writerLog, calls, done,
          clock, prod, nEmit, ctl, nAdmin, emitted, drainSnap, closeSnap, panic,
          default, adapter, tuple, result>>

agentVars == <<events, eventListeners, pending, closed, worker, writerLog, calls,
               done, clock>>
otherVars == <<default, adapter, tuple, result>>

NilAgent == "nil"
TheAgent == "agent"

\* The worker slots; a queue started with nw workers leaves the others off.
Workers == 1..(IF MaxWorkers > MaxDispatchWorkers THEN MaxWorkers
               ELSE MaxDispatchWorkers)

NoTask  == [fn |-> "none", ts |-> 0, args |-> <<>>, eid |-> 0]
NoPanic == [method |-> "", recv |-> ""]
NoRet   == Val("none", "none")
NoResult == [outcome |-> "none", args |-> <<>>]

ColorWhite       == "white"
ColorLightYellow == "lightYellow"
ColorRed         == "red"

\* Listeners the control thread registers in the agent model.
Listeners == {"ErrorListener", "listenerA"}

\* The arguments callers pass in the agent model.
Formats     == {"", "boom"}
GivenErrs   == {NilVal, MkErr("boom")}
EventStates == {<<>>, <<Req>>}
EventFlags  == {EventError, EventWebRequest}       \* OnEvent's flag
ListenFlags == {EventInfo, EventError}             \* AddEventListener's flag
ToggleFlags == {EventWarning, EventError}          \* EnableEvent's flag
Verbosities == {EventAll, EventNone}               \* SetVerbosity's flag sets

\* The flag set handed to New.
InitialVerbosity == {DefaultAgentVerbosity}

\* ---------------------------------------------------------------- methods
FormatMethods  == {"Warningf", "Errorf", "Fatalf"}
ErrorMethods   == {"Warning", "Error", "Fatal"}
WithReqMethods == {"WarningWithReq", "ErrorWithReq", "FatalWithReq"}
ReportMethods  == FormatMethods \cup ErrorMethods \cup WithReqMethods
PrintMethods   == {"Infof", "Debugf"}

\* The flag each method tests and tags its tasks with.
MethodFlag(m, flagArg) ==
    CASE m = "OnEvent" -> flagArg
      [] m = "Infof"   -> EventInfo
      [] m = "Debugf"  -> EventDebug
      [] m \in {"Warningf", "Warning", "WarningWithReq"} -> EventWarning
      [] m \in {"Errorf", "Error", "ErrorWithReq"}       -> EventError
      [] m \in {"Fatalf", "Fatal", "FatalWithReq"}       -> EventFatalError

MethodColor(m) ==
    CASE m = "Infof"  -> ColorWhite
      [] m = "Debugf" -> ColorLightYellow
      [] OTHER        -> ColorRed

\* Variant: every method writes to the error stream.
MethodWriteFnError(m) == "writeError"

\* queueWrite for Infof/Debugf, queueWriteError for the reporting methods.
MethodWriteFn(m) == IF m \in PrintMethods THEN "write" ELSE "writeError"

\* The arguments a caller may pass: [m, flag, fmt, err, req].
CallArgs ==
         { [m |-> "OnEvent", flag |-> k, fmt |-> "", err |-> NilVal, state |-> st] :
             k \in EventFlags, st \in EventStates }
    \cup { [m |-> m, flag |-> "", fmt |-> f, err |-> NilVal, state |-> <<>>] :
             m \in PrintMethods \cup FormatMethods, f \in Formats }
    \cup { [m |-> m, flag |-> "", fmt |-> "", err |-> e, state |-> <<>>] :
             m \in ErrorMethods, e \in GivenErrs }
    \cup { [m |-> m, flag |-> "", fmt |-> "", err |-> e, state |-> <<Req>>] :
             m \in WithReqMethods, e \in GivenErrs }

\* The error value a reporting method works with: fmt.Errorf(format) for the
\* f-methods, the caller's error otherwise.
CallErr(a) == IF a.m \in FormatMethods THEN MkErr(a.fmt) ELSE a.err

\* The format handed to queueWrite/queueWriteError.
CallFormat(a) ==
    IF a.m \in ErrorMethods \cup WithReqMethods THEN ErrMsg(a.err) ELSE a.fmt

\* The state a listener-trigger task carries after (timestamp, flag).
CallState(a) ==
    CASE a.m = "OnEvent"         -> a.state
      [] a.m \in PrintMethods    -> <<StringVal(a.fmt)>>
      [] a.m \in FormatMethods   -> <<CallErr(a)>>
      [] a.m \in ErrorMethods    -> <<a.err>>
      [] a.m \in WithReqMethods  -> <<a.err>> \o a.state

\* The arguments queueWrite / queueWriteError hand to Enqueue after the
\* action: append([]interface{}{TimeNow(), eventFlag, color, format}, args...)...
WriteArgs(a, ts) ==
    <<TimeVal(ts), FlagVal(MethodFlag(a.m, a.flag)), ColorVal(MethodColor(a.m)),
      StringVal(CallFormat(a))>>

\* The arguments the listener-trigger Enqueue receives after the action.
\* OnEvent, Infof and Debugf spread the slice (append(...)...), so the action
\* is called with (timestamp, flag, state...). The reporting methods pass the
\* slice []interface{}{TimeNow(), flag, err} itself, without "...": the
\* action is called with one argument, that slice.
TriggerArgs(a, ts) ==
    LET slice == <<TimeVal(ts), FlagVal(MethodFlag(a.m, a.flag))>> \o CallState(a)
    IN  IF a.m \in ReportMethods THEN <<SliceVal(slice)>> ELSE slice

\* Variant: the error is returned only when its flag is enabled.
CallReturnIfLogged(a) ==
    IF a.m \in ReportMethods
    THEN IF MethodFlag(a.m, a.flag) \in events THEN CallErr(a) ELSE NilVal
    ELSE NoRet

\* What the method returns to its caller.
CallReturn(a) == IF a.m \in ReportMethods THEN CallErr(a) ELSE NoRet

\* ------------------------------------------------------------------ agent
\* Variant: a severity cascade, Error enabled implies Warning enabled.
IsEnabledCascade(da, flag) ==
    IF da = NilAgent THEN FALSE
    ELSE \/ FlagSetIsEnabled(events, flag)
         \/ flag = EventWarning /\ FlagSetIsEnabled(events, EventError)

\* Agent.IsEnabled
IsEnabled(da, flag) ==
    IF da = NilAgent THEN FALSE ELSE FlagSetIsEnabled(events, flag)

\* Variant: the map entry is not looked at.
HasListenerAlways(da, flag) == da # NilAgent

\* Agent.HasListener
HasListener(da, flag) ==
    IF da = NilAgent THEN FALSE ELSE Len(eventListeners[flag]) > 0

\* ------------------------------------------------------------------ queue
\* Queue.Len
QueueLen == Len(pending)

\* Queue.Enqueue returns: at once with ErrClosed on a closed queue, and once
\* there is room otherwise.
CanEnqueue == closed \/ QueueLen < MaxWorkItems

Enqueue(task) ==
    pending' = IF closed THEN pending ELSE Append(pending, task)

\* What Enqueue returns: ErrClosed on a closed queue, nil otherwise.
ErrClosed == MkErr("queue closed")
EnqueueResult == IF closed THEN ErrClosed ELSE NilVal

\* A work item: the action, the arguments it will be called with, and (as
\* history) its place in the enqueue order and the call that enqueued it.
MkTask(fn, args, eid) == [fn |-> fn, ts |-> clock, args |-> args, eid |-> eid]

NoArgs == [m |-> "", flag |-> "", fmt |-> "", err |-> NilVal, state |-> <<>>]

InitProd ==
    [pc |-> "ready", recv |-> TheAgent, a |-> NoArgs, kind |-> "", eid |-> 0,
     wasEnabled |-> FALSE, sawListeners |-> <<>>, nWrite |-> 0, nTrigger |-> 0,
     refused |-> 0, ret |-> NoRet]

InitCtl ==
    [pc |-> "idle", drainCalled |-> FALSE, drainReturned |-> FALSE,
     closeCalled |-> FALSE, closeReturned |-> FALSE]

\* The control thread shuts the agent down once, by Close or by Drain.
CanShutDown == ctl.pc = "idle" /\ ~ctl.closeCalled /\ ~ctl.drainCalled

\* New(events, writer): the agent after construction, its queue started with
\* nw workers.
InitAgent(ev, nw) ==
    /\ events = ev
    /\ eventListeners = [k \in Kinds |-> <<>>]
    /\ pending = <<>>
    /\ closed = FALSE
    /\ worker = [w \in Workers |->
                   [st |-> IF w <= nw THEN "idle" ELSE "off",
                    task |-> NoTask, snap |-> <<>>, x |-> 0]]
    /\ writerLog = <<>>
    /\ calls = <<>>
    /\ done = <<>>
    /\ clock = 1
    /\ prod = InitProd
    /\ nEmit = 0
    /\ ctl = InitCtl
    /\ nAdmin = 0
    /\ emitted = {}
    /\ drainSnap = {}
    /\ closeSnap = {}
    /\ panic = NoPanic

\* Default
Default == default

Init ==
    /\ \E ev \in InitialVerbosity, nw \in 1..MaxWorkers : InitAgent(ev, nw)
    /\ default = NilAgent
    /\ adapter = "none"
    /\ tuple = <<>>
    /\ result = NoResult

\* An unrecovered panic ends the process: no thread takes another step.
Alive == panic = NoPanic

\* ------------------------------------------------------- emission methods
\* Variant: the reporting methods do not test err != nil.
SkipsCallNoErrTest(da, a) == a.m = "OnEvent" /\ da = NilAgent

\* The guards that end a call before the flag is tested: OnEvent's nil
\* receiver check, and the reporting methods' err != nil.
SkipsCall(da, a) ==
    \/ a.m = "OnEvent" /\ da = NilAgent
    \/ a.m \in ErrorMethods \cup WithReqMethods /\ a.err = NilVal

\* What is left of a call's frame once it has returned: its result and the
\* history of what it did.
Returned(p, ret) ==
    [InitProd EXCEPT !.wasEnabled = p.wasEnabled, !.ret = ret]

\* History: what a call did, recorded as it returns: every call that reached
\* its trigger Enqueue, and every Infof/Debugf call that passed its flag test.
\* nWrite: write tasks the queue accepted from it; accepted: its trigger task
\* was accepted; refused: Enqueue calls the closed queue refused; stable: the
\* listeners of its kind are those it saw.
Emission(p, triggered, refused) ==
    [eid |-> p.eid, m |-> p.a.m, kind |-> p.kind, fmt |-> CallFormat(p.a),
     state |-> CallState(p.a), err |-> CallReturn(p.a), nWrite |-> p.nWrite,
     listeners |-> p.sawListeners,
     accepted |-> triggered, refused |-> p.refused + refused,
     stable |-> eventListeners[p.kind] = p.sawListeners]

\* A caller enters an emission method.
EmitCall(da, a) ==
    /\ Alive
    /\ prod.pc = "ready"
    /\ prod' = [InitProd EXCEPT !.pc = "called", !.recv = da, !.a = a,
                                !.kind = MethodFlag(a.m, a.flag),
                                !.eid = nEmit + 1]
    /\ nEmit' = nEmit + 1
    /\ UNCHANGED <<agentVars, ctl, nAdmin, emitted, drainSnap, closeSnap, panic,
                   otherVars>>

\* The method up to and including its read of the flag set.
CheckEnabled ==
    /\ Alive
    /\ prod.pc = "called"
    /\ LET a       == prod.a
           enabled == ~SkipsCall(prod.recv, a) /\ IsEnabled(prod.recv, prod.kind)
           seen    == [prod EXCEPT
                         !.wasEnabled = prod.recv # NilAgent /\ prod.kind \in events]
       IN  prod' = IF ~enabled THEN Returned(seen, CallReturn(a))
                   ELSE IF a.m = "OnEvent" \/ CallFormat(a) = ""
                        THEN [seen EXCEPT !.pc = "listener"]
                   ELSE [seen EXCEPT !.pc = "write"]
    /\ UNCHANGED <<agentVars, nEmit, ctl, nAdmin, emitted, drainSnap, closeSnap,
                   panic, otherVars>>

\* Variant: the call tests HasListener first and enqueues its trigger task
\* ahead of its write task.
QueueWriteBehindTrigger ==
    /\ Alive
    /\ prod.pc = "write"
    /\ ~closed
    /\ QueueLen = 0
    /\ LET has  == HasListener(prod.recv, prod.kind)
           seen == [prod EXCEPT !.sawListeners = eventListeners[prod.kind],
                                !.nWrite = @ + 1]
           wr(ts) == MkTask(MethodWriteFn(prod.a.m), WriteArgs(prod.a, ts), prod.eid)
           tr     == MkTask("trigger", TriggerArgs(prod.a, clock), prod.eid)
       IN  /\ pending' = IF has THEN <<tr, [wr(clock + 1) EXCEPT !.ts = clock + 1]>>
                         ELSE <<wr(clock)>>
           /\ clock' = IF has THEN clock + 2 ELSE clock + 1
           /\ prod' = Returned(seen, CallReturn(prod.a))
           /\ emitted' = IF has THEN emitted \cup {Emission(seen, TRUE, 0)}
                         ELSE emitted
    /\ UNCHANGED <<events, eventListeners, closed, worker, writerLog, calls, done,
                   nEmit, ctl, nAdmin, drainSnap, closeSnap, panic, otherVars>>

\* Variant: when the queue refuses the task the caller writes the line itself.
QueueWriteInline ==
    /\ Alive
    /\ prod.pc = "write"
    /\ CanEnqueue
    /\ Enqueue(MkTask(MethodWriteFn(prod.a.m), WriteArgs(prod.a, clock), prod.eid))
    /\ writerLog' =
          IF closed
          THEN Append(writerLog,
                 [stream |-> IF MethodWriteFn(prod.a.m) = "write" THEN "out" ELSE "err",
                  ts |-> ToString(clock),
                  label |-> <<MethodFlag(prod.a.m, prod.a.flag), MethodColor(prod.a.m)>>,
                  msg |-> CallFormat(prod.a), eid |-> prod.eid])
          ELSE writerLog
    /\ clock' = clock + 1
    /\ prod' = [prod EXCEPT !.pc = "listener",
                            !.nWrite = IF closed THEN @ ELSE @ + 1,
                            !.refused = IF closed THEN @ + 1 ELSE @]
    /\ UNCHANGED <<events, eventListeners, closed, worker, calls, done,
                   nEmit, ctl, nAdmin, emitted, drainSnap, closeSnap, panic,
                   otherVars>>

\* queueWrite / queueWriteError: Enqueue(da.write | da.writeError, TimeNow(),
\* eventFlag, color, format). Neither is reached with an empty format.
QueueWrite ==
    /\ Alive
    /\ prod.pc = "write"
    /\ CanEnqueue
    /\ Enqueue(MkTask(MethodWriteFn(prod.a.m), WriteArgs(prod.a, clock), prod.eid))
    /\ clock' = clock + 1
    /\ prod' = [prod EXCEPT !.pc = "listener",
                            !.nWrite = IF closed THEN @ ELSE @ + 1,
                            !.refused = IF closed THEN @ + 1 ELSE @]
    /\ UNCHANGED <<events, eventListeners, closed, worker, writerLog, calls, done,
                   nEmit, ctl, nAdmin, emitted, drainSnap, closeSnap, panic,
                   otherVars>>

\* The call's HasListener test.
CheckListener ==
    /\ Alive
    /\ prod.pc = "listener"
    /\ LET has == HasListener(prod.recv, prod.kind)
       IN  /\ prod' = IF has
                   THEN [prod EXCEPT !.pc = "trigger",
                                     !.sawListeners = eventListeners[prod.kind]]
                   ELSE Returned(prod, CallReturn(prod.a))
           /\ emitted' = IF has \/ prod.a.m \notin PrintMethods THEN emitted
                         ELSE emitted \cup {Emission(prod, FALSE, 0)}
    /\ UNCHANGED <<agentVars, nEmit, ctl, nAdmin, drainSnap, closeSnap, panic,
                   otherVars>>

\* Variant: on a full queue the Enqueue returns at once and the task is lost.
QueueTriggerDropping ==
    /\ Alive
    /\ prod.pc = "trigger"
    /\ pending' = IF closed \/ QueueLen >= MaxWorkItems THEN pending
                  ELSE Append(pending, MkTask("trigger", TriggerArgs(prod.a, clock),
                                              prod.eid))
    /\ clock' = clock + 1
    /\ prod' = Returned(prod, CallReturn(prod.a))
    /\ UNCHANGED <<events, eventListeners, closed, worker, writerLog, calls, done,
                   nEmit, ctl, nAdmin, emitted, drainSnap, closeSnap, panic,
                   otherVars>>

\* Enqueue(da.triggerListeners, TimeNow(), eventFlag, state...), then return.
QueueTrigger ==
    /\ Alive
    /\ prod.pc = "trigger"
    /\ CanEnqueue
    /\ Enqueue(MkTask("trigger", TriggerArgs(prod.a, clock), prod.eid))
    /\ clock' = clock + 1
    /\ prod' = Returned([prod EXCEPT !.nTrigger = IF closed THEN @ ELSE @ + 1,
                                     !.refused = IF closed THEN @ + 1 ELSE @],
                        CallReturn(prod.a))
    /\ emitted' = emitted \cup {Emission(prod, ~closed, IF closed THEN 1 ELSE 0)}
    /\ UNCHANGED <<events, eventListeners, closed, worker, writerLog, calls, done,
                   nEmit, ctl, nAdmin, drainSnap, closeSnap, panic, otherVars>>

\* ---------------------------------------------------------------- workers
Idle == [st |-> "idle", task |-> NoTask, snap |-> <<>>, x |-> 0]

\* Variant: the task a worker takes stays in the buffer.
DequeuePeek(w) ==
    /\ Alive
    /\ worker[w].st = "idle"
    /\ pending # <<>>
    /\ worker' = [worker EXCEPT ![w] = [st |-> "run", task |-> Head(pending),
                                        snap |-> <<>>, x |-> 0]]
    /\ UNCHANGED <<events, eventListeners, pending, closed, writerLog, calls, done,
                   clock, prod, nEmit, ctl, nAdmin, emitted, drainSnap, closeSnap,
                   panic, otherVars>>

\* A worker takes the oldest pending task.
Dequeue(w) ==
    /\ Alive
    /\ worker[w].st = "idle"
    /\ pending # <<>>
    /\ worker' = [worker EXCEPT ![w] = [st |-> "run", task |-> Head(pending),
                                        snap |-> <<>>, x |-> 0]]
    /\ pending' = Tail(pending)
    /\ UNCHANGED <<events, eventListeners, closed, writerLog, calls, done, clock,
                   prod, nEmit, ctl, nAdmin, emitted, drainSnap, closeSnap, panic,
                   otherVars>>

\* Logger.Colorize(string(eventFlag), labelColor)
Colorize(text, color) == <<color, text>>

\* Agent.write / Agent.writeError through writeWithOutput: one line to the
\* standard or the error stream, or nothing when the four leading arguments
\* are missing or do not decode.
Write(w) ==
    /\ Alive
    /\ worker[w].st = "run"
    /\ worker[w].task.fn \in {"write", "writeError"}
    /\ LET t == worker[w].task
           actionState == t.args
           decoded == /\ Len(actionState) >= 4
                      /\ stateAsTimeSource(actionState[1]).ok
                      /\ stateAsEventFlag(actionState[2]).ok
                      /\ stateAsAnsiColorCode(actionState[3]).ok
                      /\ stateAsString(actionState[4]).ok
       IN  /\ writerLog' =
                 IF decoded
                 THEN Append(writerLog,
                        [stream |-> IF t.fn = "write" THEN "out" ELSE "err",
                         ts |-> actionState[1].v,
                         label |-> Colorize(actionState[2].v, actionState[3].v),
                         msg |-> actionState[4].v, eid |-> t.eid])
                 ELSE writerLog
           /\ done' = Append(done, t.ts)
    /\ worker' = [worker EXCEPT ![w] = Idle]
    /\ UNCHANGED <<events, eventListeners, pending, closed, calls, clock, prod,
                   nEmit, ctl, nAdmin, emitted, drainSnap, closeSnap, panic,
                   otherVars>>

\* Variant: the task runs the listeners its call saw in HasListener.
TriggerListenersAsEmitted(w) ==
    /\ Alive
    /\ worker[w].st = "run"
    /\ worker[w].task.fn = "trigger"
    /\ LET actionState == worker[w].task.args
           seen == { e \in emitted : e.eid = worker[w].task.eid }
           listeners == IF Len(actionState) >= 2 /\ seen # {}
                        THEN (CHOOSE e \in seen : TRUE).listeners ELSE <<>>
       IN  IF Len(listeners) = 0
           THEN /\ worker' = [worker EXCEPT ![w] = Idle]
                /\ done' = Append(done, worker[w].task.ts)
           ELSE /\ worker' = [worker EXCEPT ![w].st = "iter", ![w].snap = listeners,
                                            ![w].x = 1]
                /\ done' = done
    /\ UNCHANGED <<events, eventListeners, pending, closed, writerLog, calls, clock,
                   prod, nEmit, ctl, nAdmin, emitted, drainSnap, closeSnap, panic,
                   otherVars>>

\* Agent.triggerListeners up to the end of its locked read of the registry:
\* it returns at once when it is called with fewer than two arguments or
\* cannot decode the first two.
TriggerListeners(w) ==
    /\ Alive
    /\ worker[w].st = "run"
    /\ worker[w].task.fn = "trigger"
    /\ LET actionState == worker[w].task.args
           decoded == /\ Len(actionState) >= 2
                      /\ stateAsTimeSource(actionState[1]).ok
                      /\ stateAsEventFlag(actionState[2]).ok
           listeners == IF decoded THEN eventListeners[actionState[2].v] ELSE <<>>
       IN  IF Len(listeners) = 0
           THEN /\ worker' = [worker EXCEPT ![w] = Idle]
                /\ done' = Append(done, worker[w].task.ts)
           ELSE /\ worker' = [worker EXCEPT ![w].st = "iter", ![w].snap = listeners,
                                            ![w].x = 1]
                /\ done' = done
    /\ UNCHANGED <<events, eventListeners, pending, closed, writerLog, calls, clock,
                   prod, nEmit, ctl, nAdmin, emitted, drainSnap, closeSnap, panic,
                   otherVars>>

\* Variant: the loop reads the registry again at every turn.
CallListenerLive(w) ==
    /\ Alive
    /\ worker[w].st = "iter"
    /\ LET t    == worker[w].task
           live == eventListeners[t.args[2].v]
           x    == worker[w].x
           last == x >= Len(live)
       IN  /\ calls' = IF x <= Len(live)
                       THEN Append(calls, [listener |-> live[x], ts |-> t.args[1].v,
                                           kind |-> t.args[2].v,
                                           args |-> SubSeq(t.args, 3, Len(t.args)),
                                           eid |-> t.eid])
                       ELSE calls
           /\ worker' = IF last THEN [worker EXCEPT ![w] = Idle]
                        ELSE [worker EXCEPT ![w].x = @ + 1]
           /\ done' = IF last THEN Append(done, t.ts) ELSE done
    /\ UNCHANGED <<events, eventListeners, pending, closed, writerLog, clock, prod,
                   nEmit, ctl, nAdmin, emitted, drainSnap, closeSnap, panic,
                   otherVars>>

\* One turn of triggerListeners' loop: listeners[x](writer, ts, flag, state...).
CallListener(w) ==
    /\ Alive
    /\ worker[w].st = "iter"
    /\ LET t    == worker[w].task
           l    == worker[w].snap[worker[w].x]
           r    == InvokeListener(l, SubSeq(t.args, 3, Len(t.args)))
           last == worker[w].x = Len(worker[w].snap)
       IN  /\ calls' = IF r.outcome = "called"
                       THEN Append(calls, [listener |-> l, ts |-> t.args[1].v,
                                           kind |-> t.args[2].v, args |-> r.args,
                                           eid |-> t.eid])
                       ELSE calls
           /\ panic' = IF r.outcome = "panic"
                       THEN [method |-> l, recv |-> TheAgent]
                       ELSE panic
           /\ worker' = IF last THEN [worker EXCEPT ![w] = Idle]
                        ELSE [worker EXCEPT ![w].x = @ + 1]
           /\ done' = IF last THEN Append(done, t.ts) ELSE done
    /\ UNCHANGED <<events, eventListeners, pending, closed, writerLog, clock, prod,
                   nEmit, ctl, nAdmin, emitted, drainSnap, closeSnap, otherVars>>

\* ---------------------------------------------------------- control thread
\* A method that dereferences its nil receiver: the process panics.
NilDereference(m) ==
    /\ panic' = [method |-> m, recv |-> NilAgent]
    /\ UNCHANGED <<agentVars, prod, nEmit, ctl, nAdmin, emitted, drainSnap,
                   closeSnap, otherVars>>

\* History: a registry change for a flag after an emission of that flag.
Unsettle(flag) ==
    emitted' = { IF e.kind = flag THEN [e EXCEPT !.stable = FALSE] ELSE e :
                 e \in emitted }

CanConfigure == ctl.pc = "idle"

\* Another thread is at a read of the registry map: a caller at HasListener,
\* which takes no lock, or a worker at triggerListeners' read under the lock.
UnlockedReaderAt == prod.pc = "listener" /\ prod.recv # NilAgent
LockedReaderAt ==
    \E w \in Workers : worker[w].st = "run" /\ worker[w].task.fn = "trigger"
                        /\ Len(worker[w].task.args) >= 2

\* A write of the map races with that read unless both hold the lock.
MapRace(writerLocked) == UnlockedReaderAt \/ (~writerLocked /\ LockedReaderAt)

\* The runtime's check of a map accessed by two threads at once ends the
\* process: "fatal error: concurrent map read and map write".
ConcurrentMapAccess(m) ==
    /\ panic' = [method |-> m, recv |-> "concurrent map read and map write"]
    /\ UNCHANGED <<agentVars, prod, nEmit, ctl, nAdmin, emitted, drainSnap,
                   closeSnap, otherVars>>

\* Agent.AddEventListener: the map is written under eventListenersLock. A
\* caller at HasListener reads it without the lock: a data race.
AddEventListener(da, flag, listener) ==
    /\ Alive
    /\ CanConfigure
    /\ IF da = NilAgent
       THEN NilDereference("AddEventListener")
       ELSE \/ /\ eventListeners' =
                     [eventListeners EXCEPT ![flag] = Append(@, listener)]
               /\ nAdmin' = nAdmin + 1
               /\ Unsettle(flag)
               /\ UNCHANGED <<events, pending, closed, worker, writerLog, calls,
                              done, clock, prod, nEmit, ctl, drainSnap, closeSnap,
                              panic, otherVars>>
            \/ MapRace(TRUE) /\ ConcurrentMapAccess("AddEventListener")

\* Agent.RemoveListeners: delete(da.eventListeners, eventFlag) without the
\* lock: a data race with every concurrent read of the map.
RemoveListeners(da, flag) ==
    /\ Alive
    /\ CanConfigure
    /\ IF da = NilAgent
       THEN NilDereference("RemoveListeners")
       ELSE \/ /\ eventListeners' = [eventListeners EXCEPT ![flag] = <<>>]
               /\ nAdmin' = nAdmin + 1
               /\ Unsettle(flag)
               /\ UNCHANGED <<events, pending, closed, worker, writerLog, calls,
                              done, clock, prod, nEmit, ctl, drainSnap, closeSnap,
                              panic, otherVars>>
            \/ MapRace(FALSE) /\ ConcurrentMapAccess("RemoveListeners")

\* Agent.EnableEvent
EnableEvent(da, flag) ==
    /\ Alive
    /\ CanConfigure
    /\ IF da = NilAgent
       THEN NilDereference("EnableEvent")
       ELSE /\ events' = FlagSetEnable(events, flag)
            /\ nAdmin' = nAdmin + 1
            /\ UNCHANGED <<eventListeners, pending, closed, worker, writerLog, calls,
                           done, clock, prod, nEmit, ctl, emitted, drainSnap,
                           closeSnap, panic, otherVars>>

\* Agent.DisableEvent
DisableEvent(da, flag) ==
    /\ Alive
    /\ CanConfigure
    /\ IF da = NilAgent
       THEN NilDereference("DisableEvent")
       ELSE /\ events' = FlagSetDisable(events, flag)
            /\ nAdmin' = nAdmin + 1
            /\ UNCHANGED <<eventListeners, pending, closed, worker, writerLog, calls,
                           done, clock, prod, nEmit, ctl, emitted, drainSnap,
                           closeSnap, panic, otherVars>>

\* Variant: replacing the flag set cancels the queued tasks.
SetVerbosityCancelling(da, set) ==
    /\ Alive
    /\ CanConfigure
    /\ da # NilAgent
    /\ events' = set
    /\ pending' = <<>>
    /\ nAdmin' = nAdmin + 1
    /\ UNCHANGED <<eventListeners, closed, worker, writerLog, calls, done, clock,
                   prod, nEmit, ctl, emitted, drainSnap, closeSnap, panic, otherVars>>

\* Agent.SetVerbosity
SetVerbosity(da, set) ==
    /\ Alive
    /\ CanConfigure
    /\ IF da = NilAgent
       THEN NilDereference("SetVerbosity")
       ELSE /\ events' = set
            /\ nAdmin' = nAdmin + 1
            /\ UNCHANGED <<eventListeners, pending, closed, worker, writerLog, calls,
                           done, clock, prod, nEmit, ctl, emitted, drainSnap,
                           closeSnap, panic, otherVars>>

\* ----------------------------------------------------------------- shutdown
Range(f) == { f[i] : i \in DOMAIN f }

Running == { worker[w].task.ts : w \in {v \in Workers : worker[v].st \in {"run", "iter"}} }

\* History: the timestamps of the tasks the queue accepted and has not finished.
Unfinished == { pending[i].ts : i \in DOMAIN pending } \cup Running

\* Queue.Close: stop accepting tasks; the workers drain the buffer and exit.
QueueClose == closed' = TRUE

\* Queue.Close returns once every worker has exited: the queue is closed,
\* its buffer is drained and no worker holds a task.
QueueStopped ==
    /\ closed
    /\ pending = <<>>
    /\ \A w \in Workers : worker[w].st \in {"off", "idle"}

\* Variant: Close drops the buffered tasks.
CloseDiscarding(da) ==
    /\ Alive
    /\ CanShutDown
    /\ da # NilAgent
    /\ QueueClose
    /\ pending' = <<>>
    /\ closeSnap' = Unfinished
    /\ ctl' = [ctl EXCEPT !.pc = "closeWait", !.closeCalled = TRUE]
    /\ UNCHANGED <<events, eventListeners, worker, writerLog, calls, done, clock,
                   prod, nEmit, nAdmin, emitted, drainSnap, panic, otherVars>>

\* Agent.Close: the call into Queue.Close.
Close(da) ==
    /\ Alive
    /\ CanShutDown
    /\ IF da = NilAgent
       THEN NilDereference("Close")
       ELSE /\ QueueClose
            /\ closeSnap' = Unfinished
            /\ ctl' = [ctl EXCEPT !.pc = "closeWait", !.closeCalled = TRUE]
            /\ UNCHANGED <<events, eventListeners, pending, worker, writerLog, calls,
                           done, clock, prod, nEmit, nAdmin, emitted, drainSnap,
                           panic, otherVars>>

\* Agent.Close returns what Queue.Close returns.
CloseReturn ==
    /\ Alive
    /\ ctl.pc = "closeWait"
    /\ QueueStopped
    /\ ctl' = [ctl EXCEPT !.pc = "idle", !.closeReturned = TRUE]
    /\ UNCHANGED <<agentVars, prod, nEmit, nAdmin, emitted, drainSnap, closeSnap,
                   panic, otherVars>>

\* Agent.Drain: da.SetVerbosity(NewEventFlagSetNone()).
Drain(da) ==
    /\ Alive
    /\ CanShutDown
    /\ IF da = NilAgent
       THEN NilDereference("Drain")
       ELSE /\ events' = EventNone
            /\ drainSnap' = Unfinished
            /\ ctl' = [ctl EXCEPT !.pc = "drainPoll", !.drainCalled = TRUE]
            /\ UNCHANGED <<eventListeners, pending, closed, worker, writerLog, calls,
                           done, clock, prod, nEmit, nAdmin, emitted, closeSnap,
                           panic, otherVars>>

\* Agent.Drain: the poll that finds da.eventQueue.Len() == 0 (while it is
\* positive the loop sleeps and polls again).
DrainPoll ==
    /\ Alive
    /\ ctl.pc = "drainPoll"
    /\ QueueLen = 0
    /\ ctl' = [ctl EXCEPT !.pc = "drainClose"]
    /\ UNCHANGED <<agentVars, prod, nEmit, nAdmin, emitted, drainSnap, closeSnap,
                   panic, otherVars>>

\* Variant: Drain returns after its poll, without Close.
DrainWithoutClose ==
    /\ Alive
    /\ ctl.pc = "drainClose"
    /\ ctl' = [ctl EXCEPT !.pc = "idle", !.drainReturned = TRUE]
    /\ UNCHANGED <<agentVars, prod, nEmit, nAdmin, emitted, drainSnap, closeSnap,
                   panic, otherVars>>

\* Agent.Drain: return da.Close(), the call.
DrainClose ==
    /\ Alive
    /\ ctl.pc = "drainClose"
    /\ QueueClose
    /\ ctl' = [ctl EXCEPT !.pc = "drainWait"]
    /\ UNCHANGED <<events, eventListeners, pending, worker, writerLog, calls, done,
                   clock, prod, nEmit, nAdmin, emitted, drainSnap, closeSnap, panic,
                   otherVars>>

\* Variant: Drain does not wait for Close to return.
DrainReturnEarly ==
    /\ Alive
    /\ ctl.pc = "drainWait"
    /\ ctl' = [ctl EXCEPT !.pc = "idle", !.drainReturned = TRUE]
    /\ UNCHANGED <<agentVars, prod, nEmit, nAdmin, emitted, drainSnap, closeSnap,
                   panic, otherVars>>

\* Agent.Drain: return da.Close(), the return.
DrainReturn ==
    /\ Alive
    /\ ctl.pc = "drainWait"
    /\ QueueStopped
    /\ ctl' = [ctl EXCEPT !.pc = "idle", !.drainReturned = TRUE]
    /\ UNCHANGED <<agentVars, prod, nEmit, nAdmin, emitted, drainSnap, closeSnap,
                   panic, otherVars>>

\* SetDefault(agent): the agent New returned becomes the process-wide one.
SetDefault ==
    /\ Alive
    /\ ctl.pc = "idle"
    /\ default = NilAgent
    /\ default' = TheAgent
    /\ UNCHANGED <<agentVars, prod, nEmit, ctl, nAdmin, emitted, drainSnap,
                   closeSnap, panic, adapter, tuple, result>>

\* ------------------------------------------------------------ specification
Producer ==
    \/ nEmit < MaxEmit /\ \E a \in CallArgs : EmitCall(Default, a)
    \/ CheckEnabled
    \/ QueueWrite
    \/ CheckListener
    \/ QueueTrigger

Worker ==
    \E w \in Workers :
        \/ Dequeue(w)
        \/ Write(w)
        \/ TriggerListeners(w)
        \/ CallListener(w)

Control ==
    \/ SetDefault
    \/ /\ nAdmin < MaxAdmin
       /\ \E flag \in ListenFlags, l \in Listeners :
             /\ Len(eventListeners[flag]) < MaxListeners
             /\ AddEventListener(Default, flag, l)
    \/ nAdmin < MaxAdmin /\ \E flag \in ListenFlags : RemoveListeners(Default, flag)
    \/ nAdmin < MaxAdmin /\ \E flag \in ToggleFlags : EnableEvent(Default, flag)
    \/ nAdmin < MaxAdmin /\ \E flag \in ToggleFlags : DisableEvent(Default, flag)
    \/ nAdmin < MaxAdmin /\ \E set \in Verbosities : SetVerbosity(Default, set)
    \/ Close(Default)
    \/ Drain(Default)

Shutdown ==
    \/ CloseReturn
    \/ DrainPoll
    \/ DrainClose
    \/ DrainReturn

Next == Producer \/ Worker \/ Control \/ Shutdown

Spec == Init /\ [][Next]_vars

\* ------------------------------------------------------------ dispatch runs
\* An agent in use: emissions of the info kind, listeners registered and
\* removed for it while its tasks are queued and run, no shutdown.
DispatchArgs ==
    { [m |-> "OnEvent", flag |-> EventInfo, fmt |-> "", err |-> NilVal,
       state |-> <<Req>>],
      [m |-> "Infof", flag |-> "", fmt |-> "boom", err |-> NilVal, state |-> <<>>] }

InitDispatch ==
    /\ \E nw \in 1..MaxDispatchWorkers : InitAgent(DefaultAgentVerbosity, nw)
    /\ default = TheAgent
    /\ adapter = "none"
    /\ tuple = <<>>
    /\ result = NoResult

DispatchProducer ==
    \/ nEmit < MaxDispatchEmit /\ \E a \in DispatchArgs : EmitCall(Default, a)
    \/ CheckEnabled
    \/ QueueWrite
    \/ CheckListener
    \/ QueueTrigger

DispatchControl ==
    \/ /\ nAdmin < MaxRegistryCalls
       /\ Len(eventListeners[EventInfo]) < MaxRegistered
       /\ \E l \in PlainListeners : AddEventListener(Default, EventInfo, l)
    \/ nAdmin < MaxRegistryCalls /\ RemoveListeners(Default, EventInfo)

NextDispatch == DispatchProducer \/ Worker \/ DispatchControl

SpecDispatch == InitDispatch /\ [][NextDispatch]_vars

\* ---------------------------------------------------------- adapters alone
\* A typed adapter handed an arbitrary state tuple.
InitAdapters ==
    /\ InitAgent(EventAll, 1)
    /\ adapter \in Adapters
    /\ default = NilAgent
    /\ tuple \in TuplesUpTo(MaxStateLen)
    /\ result = NoResult

Invoke ==
    /\ result = NoResult
    /\ result' = InvokeListener(adapter, tuple)
    /\ UNCHANGED <<agentVars, prod, nEmit, ctl, nAdmin, emitted, drainSnap,
                   closeSnap, panic, default, adapter, tuple>>

NextAdapters == Invoke

SpecAdapters == InitAdapters /\ [][NextAdapters]_vars

\* =================================================================== claims
\* Steps of the producer, for the claims about one call.
Returns == prod.pc # "ready" /\ prod'.pc = "ready"

\* The producer calls Enqueue in this step (TimeNow is read for it).
CallsEnqueue == clock' # clock

Count(seq, Test(_)) == Cardinality({ i \in DOMAIN seq : Test(seq[i]) })

HasErrorListener(ls) == \E i \in DOMAIN ls : ls[i] = "ErrorListener"

\* The wrapped callbacks of error listeners invoked for emission e.
ErrorCallsFor(e) ==
    { i \in DOMAIN calls : calls[i].eid = e.eid /\ calls[i].listener = "ErrorListener" }

DeliveredOnce(e) ==
    /\ Cardinality(ErrorCallsFor(e)) = 1
    /\ \A i \in ErrorCallsFor(e) : calls[i].args = <<e.err>>

\* C1: for every error-reporting emission made while its kind is enabled and
\* an error listener is registered for the kind, once Drain has returned the
\* listener's callback has been invoked exactly once for the emission, with
\* the error the call returned. Stated for the emissions most favourable to
\* it: the queue accepted the trigger task, exactly one error listener was
\* registered, and the kind's listeners were not changed after the emission.
C1_DeliveredOnceAfterDrain ==
    ctl.drainReturned =>
        \A e \in emitted :
            ( /\ e.m \in ReportMethods
              /\ e.accepted
              /\ e.stable
              /\ Count(e.listeners, LAMBDA l : l = "ErrorListener") = 1 )
            => DeliveredOnce(e)

\* C2: a typed adapter handed any state tuple either calls the wrapped
\* callback with every argument decoded to the callback's parameter type, or
\* returns without calling it; it never panics.
C2_AdapterCallsOrDrops ==
    /\ result.outcome # "panic"
    /\ result.outcome = "called" =>
          /\ Len(result.args) = Len(CallbackTypes(adapter))
          /\ \A i \in DOMAIN result.args :
                /\ result.args[i] = tuple[i]
                /\ result.args[i].t = CallbackTypes(adapter)[i]

\* A step in which a method runs on the nil agent.
NilCallStep ==
    \/ prod.pc = "called" /\ prod.recv = NilAgent /\ prod'.pc = "ready"
    \/ default = NilAgent /\ panic' # panic

\* C3: every public Agent method called on a nil Agent is a no-op: it does not
\* crash and changes no state of any agent.
C3_NilReceiverIsNoOp ==
    [][NilCallStep => (panic' = NoPanic /\ UNCHANGED agentVars)]_vars

\* C4: every task enqueued before Drain was called, pending or picked up by a
\* worker, has finished when Drain returns.
C4_DrainWaitsForEnqueued ==
    ctl.drainReturned => drainSnap \subseteq Range(done)

C4_Witness == ctl.drainReturned /\ drainSnap # {}

\* C5: in every state after Drain has returned the queue's Len() is 0, the
\* queue is closed and no task is pending or running: nothing enqueued later
\* is accepted or executed.
C5_ClosedAndEmptyAfterDrain ==
    ctl.drainReturned => (QueueLen = 0 /\ closed /\ Unfinished = {})

\* An enqueue was refused after Drain returned and the flags were enabled again.
C5_Witness ==
    /\ ctl.drainReturned
    /\ events # EventNone
    /\ prod.wasEnabled
    /\ prod.refused > 0

\* C6: Close without a prior Drain discards no backlog: every task enqueued and
\* unfinished when Close was called has executed exactly once when Close returns.
C6_CloseRunsBacklog ==
    ctl.closeReturned =>
        \A ts \in closeSnap : Count(done, LAMBDA d : d = ts) = 1

C6_Witness == ctl.closeReturned /\ closeSnap # {} /\ ~ctl.drainCalled

\* C7: Warning, Error, Fatal and the WithReq variants return the error they
\* were given, and Warningf, Errorf, Fatalf return a non-nil error built from
\* the format, whatever the agent's state.
C7_ReturnsTheError ==
    [][Returns =>
         /\ prod.a.m \in ErrorMethods \cup WithReqMethods => prod'.ret = prod.a.err
         /\ prod.a.m \in FormatMethods =>
               (prod'.ret # NilVal /\ prod'.ret = MkErr(prod.a.fmt))]_vars

\* A reporting call has returned its error with its kind disabled.
C7_Witness ==
    /\ prod.pc = "ready"
    /\ prod.ret.t = "error"
    /\ ~prod.wasEnabled

\* C8: Warning, Error, Fatal or a WithReq variant called with a nil error
\* returns nil without calling Enqueue; the queue is as it was.
C8_NilErrorIsNoOp ==
    [][(Returns /\ prod.a.m \in ErrorMethods \cup WithReqMethods
                /\ prod.a.err = NilVal) =>
         /\ prod'.ret = NilVal
         /\ prod.pc = "called"
         /\ ~CallsEnqueue
         /\ pending' = pending]_vars

\* A call with a nil error has returned nil while its kind was enabled.
C8_Witness ==
    /\ prod.pc = "ready"
    /\ prod.ret = NilVal
    /\ prod.wasEnabled

\* C9: an emission of kind K calls Enqueue only if K itself was enabled when
\* the call tested it, and with K enabled the call is not suppressed, whatever
\* the other kinds' flags are.
C9_GatedByOwnFlag ==
    [][/\ CallsEnqueue => prod.wasEnabled
       /\ ( /\ prod.pc = "called"
            /\ prod' # prod
            /\ prod.recv # NilAgent
            /\ prod.kind \in events
            /\ ~(prod.a.m \in ErrorMethods \cup WithReqMethods /\ prod.a.err = NilVal) )
          => prod'.pc \in {"write", "listener"}]_vars

\* An Error task is queued while Warning is disabled.
C9_Witness ==
    /\ EventWarning \notin events
    /\ \E i \in DOMAIN pending : pending[i].args[2] = FlagVal(EventError)

\* The listener-trigger task OnEvent builds.
OnEventTask ==
    [fn |-> "trigger", ts |-> clock,
     args |-> <<TimeVal(clock), FlagVal(prod.a.flag)>> \o prod.a.state,
     eid |-> prod.eid]

\* OnEvent never takes the write path, and a call that returns without
\* reaching its Enqueue leaves the queue as it was.
OnEventElse ==
    /\ prod'.pc # "write"
    /\ (Returns /\ prod.pc # "trigger") => (~CallsEnqueue /\ pending' = pending)
    /\ prod'.pc = "trigger" =>
          (prod.wasEnabled /\ Len(eventListeners[prod.a.flag]) > 0)

\* C10 (as stated): OnEvent enqueues exactly one listener-trigger task carrying
\* (timestamp, kind, state...) when kind is enabled and has a listener, and
\* enqueues nothing otherwise; it never enqueues a write task.
C10_OnEventEnqueuesOne ==
    [][(prod.a.m = "OnEvent" /\ prod' # prod) =>
         /\ OnEventElse
         /\ (Returns /\ prod.pc = "trigger") =>
               pending' = Append(pending, OnEventTask)]_vars

\* C10 (amended): the same while the queue is open; on a closed queue the
\* Enqueue is refused and nothing is added.
C10_OnEventEnqueuesOneWhileOpen ==
    [][(prod.a.m = "OnEvent" /\ prod' # prod) =>
         /\ OnEventElse
         /\ (Returns /\ prod.pc = "trigger") =>
               pending' = IF closed THEN pending
                          ELSE Append(pending, OnEventTask)]_vars

\* The trigger task of an OnEvent call is in the queue.
C10_Witness ==
    \E i \in DOMAIN pending :
        pending[i].fn = "trigger" /\ SubSeq(pending[i].args, 3, Len(pending[i].args)) \in EventStates

\* ------------------------------------------------------------ C11 .. C20
\* The lines the Writer received for emission e, and the callbacks invoked
\* for it.
LinesFor(e) == { i \in DOMAIN writerLog : writerLog[i].eid = e.eid }
CallsFor(e) == { i \in DOMAIN calls : calls[i].eid = e.eid }

\* C11 (as stated): every Infof/Debugf call made while its kind is enabled
\* enqueues exactly one write task, for every format string, and exactly one
\* listener-trigger task iff a listener is registered for the kind; after
\* Drain the Writer has received exactly one line for the call, and no
\* listener of another kind has been invoked for it.
C11_PrintWritesOnce ==
    \A e \in emitted : e.m \in PrintMethods =>
        /\ e.nWrite = 1
        /\ e.accepted <=> (e.listeners # <<>>)
        /\ ctl.drainReturned => Cardinality(LinesFor(e)) = 1
        /\ \A i \in CallsFor(e) : calls[i].kind = e.kind

\* C11 (amended): the same for a non-empty format and a queue that refused
\* none of the call's Enqueues; with an empty format no write task is
\* enqueued, and after Drain the Writer has received one line per accepted
\* write task, on the standard stream, carrying the format.
C11_PrintWritesOnceIfFormatAndOpen ==
    \A e \in emitted : e.m \in PrintMethods =>
        /\ e.fmt = "" => e.nWrite = 0
        /\ e.refused = 0 =>
              /\ e.nWrite = IF e.fmt = "" THEN 0 ELSE 1
              /\ e.accepted <=> (e.listeners # <<>>)
        /\ e.accepted => e.listeners # <<>>
        /\ Cardinality(LinesFor(e)) <= e.nWrite
        /\ ctl.drainReturned => Cardinality(LinesFor(e)) = e.nWrite
        /\ \A i \in LinesFor(e) :
              writerLog[i].stream = "out" /\ writerLog[i].msg = e.fmt
        /\ \A i \in CallsFor(e) : calls[i].kind = e.kind

\* After Drain: an Infof call with a listener registered for the error kind
\* only has its one line at the Writer and no callback invoked.
C11_Witness ==
    /\ ctl.drainReturned
    /\ eventListeners[EventError] # <<>>
    /\ \E e \in emitted :
          /\ e.m = "Infof" /\ e.nWrite = 1 /\ e.listeners = <<>>
          /\ Cardinality(LinesFor(e)) = 1
          /\ CallsFor(e) = {}

\* No task is buffered or running.
Quiescent == pending = <<>> /\ \A w \in Workers : worker[w].st \in {"off", "idle"}

\* The listeners among ls that invoke their callback for the state.
RECURSIVE Firing(_, _)
Firing(ls, state) ==
    IF ls = <<>> THEN <<>>
    ELSE (IF InvokeListener(Head(ls), state).outcome = "called"
          THEN <<Head(ls)>> ELSE <<>>) \o Firing(Tail(ls), state)

\* The listeners invoked for emission e, in the order of their invocation.
RECURSIVE Invoked(_, _)
Invoked(log, e) ==
    IF log = <<>> THEN <<>>
    ELSE (IF Head(log).eid = e.eid THEN <<Head(log).listener>> ELSE <<>>)
         \o Invoked(Tail(log), e)

\* Timestamps of the tasks that were queued or running when Drain replaced
\* the flag set by the empty one.
DisabledWhileQueued == { ToString(ts) : ts \in drainSnap }

Started == { w \in Workers : worker[w].st # "off" }

\* How often the task enqueued at ts is in the buffer, held by a worker,
\* finished.
Buffered(ts) == Cardinality({ i \in DOMAIN pending : pending[i].ts = ts })
Held(ts) ==
    Cardinality({ w \in Workers : worker[w].st \in {"run", "iter"}
                                  /\ worker[w].task.ts = ts })
Finished(ts) == Cardinality({ i \in DOMAIN done : done[i] = ts })

Ascending(seq) == \A i, j \in DOMAIN seq : i < j => seq[i] < seq[j]

InEnqueue == prod.pc \in {"write", "trigger"}

\* C14: the buffer never holds more than its capacity; while it is full and
\* open a producer inside Enqueue stays there, and the only change to the
\* buffer is a worker taking a task; when the Enqueue does return on an open
\* queue, its task has been appended.
C14_BoundedAndBlocking ==
    [][/\ QueueLen <= MaxWorkItems /\ Len(pending') <= MaxWorkItems
       /\ (InEnqueue /\ ~closed /\ QueueLen = MaxWorkItems) =>
             /\ prod' = prod
             /\ pending' # pending => pending' = Tail(pending)
       /\ (InEnqueue /\ ~closed /\ prod' # prod) =>
             /\ Len(pending') = QueueLen + 1
             /\ pending'[Len(pending')].eid = prod.eid
             /\ pending'[Len(pending')].ts = clock]_vars

\* A call waits inside the Enqueue of its trigger task: the buffer is full.
C14_Witness ==
    /\ prod.pc = "trigger"
    /\ ~closed
    /\ QueueLen = MaxWorkItems
    /\ Alive

\* C15: an emission call one of whose Enqueues failed with ErrClosed returns
\* that failure to its caller.
C15_ClosedEnqueueIsReported ==
    [][(Returns /\ (prod.refused > 0 \/ (InEnqueue /\ EnqueueResult = ErrClosed)))
          => prod'.ret = ErrClosed]_vars

\* The listeners invoked so far by the trigger task a worker holds.
InvokedBy(log, w) == Invoked(log, [eid |-> worker[w].task.eid])

\* C16: a worker running a trigger task keeps the snapshot it read; at every
\* moment it has invoked the first x-1 listeners of that snapshot, in
\* registration order, and nothing else; it leaves the loop only after the
\* last one, having invoked exactly the snapshot, whatever AddEventListener
\* and RemoveListeners did to the registry meanwhile.
C16_SnapshotInOrder ==
    [][\A w \in Workers : worker[w].st = "iter" =>
          LET snap == worker[w].snap
          IN  /\ InvokedBy(calls, w) = SubSeq(snap, 1, worker[w].x - 1)
              /\ worker'[w].st = "iter" =>
                    /\ worker'[w].snap = snap
                    /\ worker'[w].task = worker[w].task
              /\ worker'[w].st # "iter" =>
                    /\ worker[w].x = Len(snap)
                    /\ InvokedBy(calls', w) = snap]_vars

\* A worker is inside the loop over a snapshot that is no longer the
\* registry's list: a listener was added or the listeners were removed after
\* the snapshot was read.
C16_Witness ==
    \E w \in Workers :
        /\ worker[w].st = "iter"
        /\ eventListeners[worker[w].task.args[2].v] # worker[w].snap

\* A step that writes the registry map, and one that deletes from it.
RegistryWritten == eventListeners' # eventListeners
RegistryDeleted ==
    \E f \in Kinds : eventListeners[f] # <<>> /\ eventListeners'[f] = <<>>

\* C17: no thread writes the registry map while another thread is at an
\* access of it that is not ordered with the write by the registry lock:
\* AddEventListener writes under the lock, so no reader without the lock may
\* be at its read; RemoveListeners must hold the lock as well.
C17_RegistrySynchronized ==
    [][RegistryWritten =>
          /\ ~UnlockedReaderAt
          /\ RegistryDeleted => ~LockedReaderAt]_vars

\* C18: every task in the queue carries the timestamp read at its Enqueue as
\* argument zero, and every listener-trigger task the event kind as argument
\* one.
C18_TimestampThenKind ==
    \A i \in DOMAIN pending :
        LET t == pending[i]
        IN  /\ Len(t.args) >= 1
            /\ t.args[1] = TimeVal(t.ts)
            /\ t.fn = "trigger" =>
                  /\ Len(t.args) >= 2
                  /\ t.args[2].t = "flag"
                  /\ t.args[2].v \in Kinds

\* A worker that is running a task takes a step.
WorkerRuns ==
    \E w \in Started : worker[w].st \in {"run", "iter"} /\ worker'[w] # worker[w]

\* C19: the Writer receives a line and a listener is invoked only in the step
\* of a worker that runs a task; no step of a caller inside an emission
\* method, whether its Enqueue is accepted or refused, and no step of the
\* thread that configures, drains or closes the agent does either.
C19_OnlyWorkersWriteAndInvoke ==
    [][/\ (writerLog' # writerLog \/ calls' # calls) =>
             WorkerRuns /\ prod' = prod /\ ctl' = ctl
       /\ (prod' # prod \/ ctl' # ctl) =>
             writerLog' = writerLog /\ calls' = calls]_vars

\* The Writer has the line of a call that is still inside its method, and
\* the queue has been closed in the meantime.
C19_Witness ==
    /\ closed
    /\ prod.pc \in {"listener", "trigger"}
    /\ \E i \in DOMAIN writerLog : writerLog[i].eid = prod.eid

\* The trigger task a worker is about to start reading the registry for.
AtSnapshotRead(w) ==
    /\ worker[w].st = "run"
    /\ worker[w].task.fn = "trigger"
    /\ Len(worker[w].task.args) >= 2
    /\ worker'[w] # worker[w]

\* C20: the listeners of a trigger task are those registered for its kind
\* when the task reads the registry, whatever they were when the call was
\* made: every listener added before that read is in the snapshot the task
\* runs, and when the listeners were removed before it the task ends without
\* invoking anyone.
C20_ResolvedAtExecution ==
    [][\A w \in Workers : AtSnapshotRead(w) =>
          LET now == eventListeners[worker[w].task.args[2].v]
          IN  /\ now # <<>> =>
                    /\ worker'[w].st = "iter"
                    /\ worker'[w].snap = now
                    /\ worker'[w].x = 1
              /\ now = <<>> =>
                    /\ worker'[w] = Idle
                    /\ calls' = calls
                    /\ InvokedBy(calls', w) = <<>>]_vars

\* A call saw one listener, returned, and its trigger task has invoked a
\* listener that was registered after the call returned.
C20_Witness ==
    \E e \in emitted :
        /\ e.accepted
        /\ \E i \in CallsFor(e) :
              \A j \in DOMAIN e.listeners : e.listeners[j] # calls[i].listener

\* A call saw a listener and its trigger task was accepted; the listeners
\* were removed before the task ran, and it has finished invoking no one.
C20_RemovedBeforeSnapshot ==
    /\ Quiescent
    /\ \E e \in emitted :
          /\ e.accepted
          /\ e.listeners # <<>>
          /\ eventListeners[e.kind] = <<>>
          /\ CallsFor(e) = {}

\* The logical time a timestamp argument was rendered from.
TimeOf(v) == CHOOSE n \in 0..clock : ToString(n) = v

WriteFns == {"write", "writeError"}

\* The tasks of emission e that are buffered or held by a worker.
TasksOf(e) ==
    { pending[i] : i \in { k \in DOMAIN pending : pending[k].eid = e.eid } }
    \cup { worker[w].task : w \in { k \in Workers : /\ worker[k].st \in {"run", "iter"}
                                                    /\ worker[k].task.eid = e.eid } }

\* The Enqueue times of e's write task and of its trigger task, as far as
\* the tasks, the Writer's lines and the invoked callbacks show them.
WriteTimes(e) ==
    { t.ts : t \in { u \in TasksOf(e) : u.fn \in WriteFns } }
    \cup { TimeOf(writerLog[i].ts) : i \in LinesFor(e) }
TriggerTimes(e) ==
    { t.ts : t \in { u \in TasksOf(e) : u.fn = "trigger" } }
    \cup { TimeOf(calls[i].ts) : i \in CallsFor(e) }

\* e's trigger task has been taken from the buffer.
TriggerTaken(e) ==
    \A i \in DOMAIN pending : ~(pending[i].eid = e.eid /\ pending[i].fn = "trigger")

\* C21: for a call whose write task and trigger task were both accepted, the
\* write task was enqueued first: it carries the earlier Enqueue time, it is
\* ahead of the trigger task wherever both are in the buffer, and with one
\* worker the line is at the Writer by the time the trigger task is taken,
\* so before any listener of the call is invoked.
C21_WriteBeforeTrigger ==
    \A e \in emitted : (e.nWrite = 1 /\ e.accepted) =>
        /\ \A a \in WriteTimes(e) : \A b \in TriggerTimes(e) : a < b
        /\ \A i, j \in DOMAIN pending :
              (/\ pending[i].eid = e.eid /\ pending[i].fn \in WriteFns
               /\ pending[j].eid = e.eid /\ pending[j].fn = "trigger") => i < j
        /\ (Cardinality(Started) = 1 /\ TriggerTaken(e)) =>
              Cardinality(LinesFor(e)) = 1

\* One worker: an Infof call's line is at the Writer and its listener has
\* been invoked.
C21_Witness ==
    /\ Cardinality(Started) = 1
    /\ \E e \in emitted :
          /\ e.m = "Infof" /\ e.nWrite = 1 /\ e.accepted
          /\ LinesFor(e) # {}
          /\ CallsFor(e) # {}

\* Two workers: the listener of an Infof call has been invoked while its
\* line is not yet at the Writer.
C21_ListenerAheadOfLine ==
    /\ Cardinality(Started) = 2
    /\ \E e \in emitted :
          /\ e.nWrite = 1 /\ e.accepted
          /\ CallsFor(e) # {}
          /\ LinesFor(e) = {}

====
